---------------------------- MODULE Spec2Model ----------------------------
(***************************************************************************)
(* A model of the overlay builders of draw_mountain                        *)
(* (scripts/build_jeju_overlay_data.py, build_seoul_overlay_from_shp.py,   *)
(* build_region_overlays_from_shp.py): the two polyline simplifiers, the   *)
(* WKB polyline decoder, the DBF attribute reader, the shapefile reader,   *)
(* the GeoPackage blob header and the build entry points.                  *)
(*                                                                         *)
(* Every decoder and simplifier of the scripts is a function of its        *)
(* arguments or of the bytes of its file, so each is an operator computed  *)
(* the way the code computes it, and each specification draws the inputs   *)
(* of one component in its initial states and applies the functions in its *)
(* actions; the builds are followed step by step through the sources they  *)
(* open and close.  Coordinates are integers and distances exact           *)
(* rationals, so the model leaves floating-point rounding out.  A call     *)
(* that raises is a result with ok = FALSE and the exception's name in     *)
(* err.                                                                    *)
(***************************************************************************)
EXTENDS Integers, Sequences, FiniteSets

VARIABLES
    pc,            \* the step the run is at
    points,        \* simplifiers: the input polyline
    tolerance,     \* _simplify_line: tolerance of the last call
    min_spacing,   \* _simplify_line_fast: min_spacing of the last call
    max_points,    \* _simplify_line_fast: max_points of the last call
    keep,          \* _simplify_line: the keep flags, as the set of kept indices
    out,           \* simplifiers: the result of the last call
    prev,          \* simplifiers: the result of the call before the last one
    data,          \* WKB decoder: the bytes handed to _parse_lines_from_wkb
    start,         \* WKB decoder: the offset the decode starts at
    geom,          \* WKB decoder: the geometry the bytes were encoded from
    parsed,        \* WKB decoder: the result of _parse_lines_from_wkb
    dbf,           \* DBF reader: the bytes of the file
    table,         \* DBF reader: the table the file was written from
    contours,      \* DBF reader: the result of read_dbf_contours
    shp,           \* shapefile reader: the bytes of the file
    shapefile,     \* shapefile reader: the records the file was written from
    shapes,        \* shapefile reader: the result of read_shp_polylines
    blob,          \* blob header: the bytes handed to _gpkg_blob_to_wkb
    gpkg,          \* blob header: the fields the blob was written from
    wkb,           \* blob header: the result of _gpkg_blob_to_wkb
    entry,         \* builds: the entry point that runs
    open,          \* builds: the binary sources that are open
    codes,         \* builds: the shapefile and DBF table of each code
    code_no,       \* builds: the index of the code at hand
    bounds,        \* builds: the bounds merged so far, <<>> for None
    output_lines,  \* builds: the contours emitted so far
    route_row,     \* Jeju build: the row of the route table
    contour_rows,  \* Jeju build: the rows the contour query returns
    route_lines    \* Jeju build: the result of load_route_lines

simplifyVars == <<points, tolerance, min_spacing, max_points, keep, out, prev>>

wkbVars == <<data, start, geom, parsed>>

dbfVars == <<dbf, table, contours>>

shpVars == <<shp, shapefile, shapes>>

gpkgVars == <<blob, gpkg, wkb>>

buildVars == <<entry, open, codes, code_no, bounds, output_lines,
               route_row, contour_rows, route_lines>>

vars == <<pc, simplifyVars, wkbVars, dbfVars, shpVars, gpkgVars, buildVars>>

\* What each component's actions leave alone.
notSimplifyVars == <<wkbVars, dbfVars, shpVars, gpkgVars, buildVars>>

notWkbVars == <<simplifyVars, dbfVars, shpVars, gpkgVars, buildVars>>

notDbfVars == <<simplifyVars, wkbVars, shpVars, gpkgVars, buildVars>>

notShpVars == <<simplifyVars, wkbVars, dbfVars, gpkgVars, buildVars>>

notGpkgVars == <<simplifyVars, wkbVars, dbfVars, shpVars, buildVars>>

\* The builds read shapefiles and DBF files: they leave these alone.
notBuildVars == <<simplifyVars, wkbVars, gpkgVars>>

-----------------------------------------------------------------------------
(* Bounds of the model. *)

\* The longest input polyline.
MaxLen == 4

\* The largest x coordinate; y is 0 or 1.
MaxX == 2

\* The tolerances, spacings and point budgets the simplifiers are called with.
Tolerances == {0, 1, 2}

Spacings == {0, 1, 2}

Budgets == {1, 2, 3, 4}

Grid == {<<x, y>> : x \in 0..MaxX, y \in 0..1}

Polylines == UNION {[1..n -> Grid] : n \in 0..MaxLen}

-----------------------------------------------------------------------------
(* Results. *)

Returned(v) == [ok |-> TRUE, err |-> "none", val |-> v]

Raised(e) == [ok |-> FALSE, err |-> e, val |-> <<>>]

NoResult == Raised("not called")

Last(s) == s[Len(s)]

\* ceil(a / b) as math.ceil of Python's true division gives it, for a >= 0, b # 0
CeilDiv(a, b) ==
    IF b > 0 THEN (a + b - 1) \div b
    ELSE -(a \div (-b))


\* The state of a component the specification at hand does not run.
SimplifyIdle ==
    /\ points = <<>>
    /\ tolerance = 0
    /\ min_spacing = 0
    /\ max_points = 0
    /\ keep = {}
    /\ out = NoResult
    /\ prev = NoResult

WkbIdle ==
    /\ data = <<>>
    /\ start = 0
    /\ geom = [little |-> TRUE, code |-> 0, pts |-> <<>>, kids |-> <<>>]
    /\ parsed = NoResult

DbfIdle ==
    /\ dbf = <<>>
    /\ table = [fields |-> <<>>, recs |-> <<>>, cut |-> FALSE]
    /\ contours = NoResult

ShpIdle ==
    /\ shp = <<>>
    /\ shapefile = [type |-> 0, recs |-> <<>>, cut |-> "whole"]
    /\ shapes = NoResult

GpkgIdle ==
    /\ blob = <<>>
    /\ gpkg = [marker |-> <<>>, little |-> TRUE, code |-> 0, empty |-> FALSE,
               extended |-> FALSE, payload |-> 0, cut |-> 0]
    /\ wkb = NoResult

BuildIdle ==
    /\ entry = "none"
    /\ open = {}
    /\ codes = <<>>
    /\ code_no = 0
    /\ bounds = <<>>
    /\ output_lines = <<>>
    /\ route_row = [present |-> FALSE, blob |-> <<>>]
    /\ contour_rows = <<>>
    /\ route_lines = NoResult

-----------------------------------------------------------------------------
(* Exact simplification: _distance_sq_point_to_segment and _simplify_line. *)
(* A squared distance is the exact rational n / d, d > 0.                  *)

Rat(n, d) == [n |-> n, d |-> d]

RatGt(r, s) == r.n * s.d > s.n * r.d

RatLe(r, s) == ~RatGt(r, s)

\* t = max(0.0, min(1.0, t)), on t = num / den with den > 0
ClampT(num, den) ==
    IF num < 0 THEN 0 ELSE IF num > den THEN den ELSE num

_distance_sq_point_to_segment(p, a, b) ==
    LET dx == b[1] - a[1]
        dy == b[2] - a[2]
    IN  IF dx = 0 /\ dy = 0
        THEN Rat((p[1] - a[1]) * (p[1] - a[1]) + (p[2] - a[2]) * (p[2] - a[2]), 1)
        ELSE LET den == dx * dx + dy * dy
                 num == (p[1] - a[1]) * dx + (p[2] - a[2]) * dy
                 tn  == ClampT(num, den)
                 \* den * (p - q), q = a + t * (b - a)
                 ex  == den * (p[1] - a[1]) - tn * dx
                 ey  == den * (p[2] - a[2]) - tn * dy
             IN  Rat(ex * ex + ey * ey, den * den)

\* for k in range(i + 1, j): the first interior point of maximum distance
RECURSIVE ScanMax(_, _, _, _, _)
ScanMax(pts, i, j, k, best) ==
    IF k >= j THEN best
    ELSE LET dist_sq == _distance_sq_point_to_segment(pts[k], pts[i], pts[j])
         IN  ScanMax(pts, i, j, k + 1,
                     IF RatGt(dist_sq, best.max_dist_sq)
                     THEN [max_dist_sq |-> dist_sq, max_idx |-> k]
                     ELSE best)

\* keep[0] alone: the last point is not marked.
InitialKeepFirstOnly(n) == {1}

\* keep[0] = keep[-1] = True
InitialKeep(n) == {1, n}

\* Only the right half is pushed: the left half is never looked at again.
PushRightHalfOnly(i, max_idx, j) == <<<<max_idx, j>>>>

\* stack.append((i, max_idx)); stack.append((max_idx, j))
PushHalves(i, max_idx, j) == <<<<i, max_idx>>, <<max_idx, j>>>>

\* while stack: ... (the stack is a sequence, its top the last element)
RECURSIVE SimplifyLoop(_, _, _, _)
SimplifyLoop(pts, tol_sq, stack, kept) ==
    IF stack = <<>> THEN kept
    ELSE LET top  == Last(stack)
             rest == SubSeq(stack, 1, Len(stack) - 1)
             i    == top[1]
             j    == top[2]
             best == ScanMax(pts, i, j, i + 1,
                             [max_dist_sq |-> Rat(-1, 1), max_idx |-> -1])
         IN  IF RatGt(best.max_dist_sq, Rat(tol_sq, 1)) /\ best.max_idx # -1
             THEN SimplifyLoop(pts, tol_sq,
                               rest \o PushHalves(i, best.max_idx, j),
                               kept \cup {best.max_idx})
             ELSE SimplifyLoop(pts, tol_sq, rest, kept)

\* The keep flags when _simplify_line returns, as the set of kept indices.
KeepFlags(pts, tol) ==
    IF Len(pts) <= 2 THEN 1..Len(pts)
    ELSE SimplifyLoop(pts, tol * tol, <<<<1, Len(pts)>>>>, InitialKeep(Len(pts)))

\* [pt for idx, pt in enumerate(points) if keep[idx]]
RECURSIVE Select(_, _, _)
Select(pts, kept, k) ==
    IF k > Len(pts) THEN <<>>
    ELSE (IF k \in kept THEN <<pts[k]>> ELSE <<>>) \o Select(pts, kept, k + 1)

_simplify_line(pts, tol) ==
    IF Len(pts) <= 2 THEN pts
    ELSE Select(pts, KeepFlags(pts, tol), 1)

-----------------------------------------------------------------------------
(* Fast simplification: _simplify_line_fast. *)

\* for x, y in points[1:-1]: keep a point at least min_spacing from the last kept
RECURSIVE SpacingScan(_, _, _, _, _)
SpacingScan(pts, k, simplified, last, spacing_sq) ==
    IF k >= Len(pts) THEN simplified
    ELSE LET dx == pts[k][1] - last[1]
             dy == pts[k][2] - last[2]
         IN  IF dx * dx + dy * dy >= spacing_sq
             THEN SpacingScan(pts, k + 1, Append(simplified, pts[k]), pts[k], spacing_sq)
             ELSE SpacingScan(pts, k + 1, simplified, last, spacing_sq)

\* if s[-1] != last: s.append(last)
AppendIfDiffers(s, last) ==
    IF Last(s) # last THEN Append(s, last) ELSE s

\* range(0, len - 1, step): the stride starts at the first point again.
StridePickFromFirst(simplified, step) ==
    [m \in 1..CeilDiv(Len(simplified) - 1, step) |-> simplified[1 + (m - 1) * step]]

\* simplified[i] for i in range(1, len(simplified) - 1, step)
StridePick(simplified, step) ==
    [m \in 1..CeilDiv(Len(simplified) - 2, step) |-> simplified[2 + (m - 1) * step]]

_simplify_line_fast(pts, spacing, budget) ==
    IF Len(pts) <= 2 THEN Returned(pts)
    ELSE LET spacing_sq == spacing * spacing
             scanned    == SpacingScan(pts, 2, <<pts[1]>>, pts[1], spacing_sq)
             simplified == AppendIfDiffers(scanned, Last(pts))
         IN  IF Len(simplified) <= budget THEN Returned(simplified)
             ELSE IF budget - 2 = 0 THEN Raised("ZeroDivisionError")
             ELSE LET ceiled  == CeilDiv(Len(simplified) - 2, budget - 2)
                      step    == IF ceiled < 1 THEN 1 ELSE ceiled
                      trimmed == <<simplified[1]>> \o StridePick(simplified, step)
                  IN  Returned(AppendIfDiffers(trimmed, Last(simplified)))

-----------------------------------------------------------------------------
(* The simplifiers' specification: an input polyline, then one simplifier  *)
(* on it; the exact simplifier may run once more on its own output.        *)

InitSimplify ==
    /\ pc = "input"
    /\ points \in Polylines
    /\ tolerance = 0
    /\ min_spacing = 0
    /\ max_points = 0
    /\ keep = {}
    /\ out = NoResult
    /\ prev = NoResult
    /\ WkbIdle
    /\ DbfIdle
    /\ ShpIdle
    /\ GpkgIdle
    /\ BuildIdle

Exact ==
    /\ pc = "input"
    /\ \E t \in Tolerances :
        /\ tolerance' = t
        /\ keep' = KeepFlags(points, t)
        /\ out' = Returned(_simplify_line(points, t))
    /\ prev' = out
    /\ pc' = "exact"
    /\ UNCHANGED <<points, min_spacing, max_points>>
    /\ UNCHANGED notSimplifyVars

ExactAgain ==
    /\ pc = "exact"
    /\ prev' = out
    /\ keep' = KeepFlags(out.val, tolerance)
    /\ out' = Returned(_simplify_line(out.val, tolerance))
    /\ pc' = "exact_again"
    /\ UNCHANGED <<points, tolerance, min_spacing, max_points>>
    /\ UNCHANGED notSimplifyVars

Fast ==
    /\ pc = "input"
    /\ \E s \in Spacings, m \in Budgets :
        /\ min_spacing' = s
        /\ max_points' = m
        /\ out' = _simplify_line_fast(points, s, m)
    /\ prev' = out
    /\ pc' = "fast"
    /\ UNCHANGED <<points, tolerance, keep>>
    /\ UNCHANGED notSimplifyVars

NextSimplify == Exact \/ ExactAgain \/ Fast

SpecSimplify == InitSimplify /\ [][NextSimplify]_vars

-----------------------------------------------------------------------------
(* Claims about the simplifiers, checked under SpecSimplify. *)

\* The input of the last call: the exact simplifier's second run reads the
\* first run's output.
CallInput == IF pc = "exact_again" THEN prev.val ELSE points

\* s is a subsequence of t: s[i..] can be matched, in order, within t[j..]
RECURSIVE IsSubseqFrom(_, _, _, _)
IsSubseqFrom(s, t, i, j) ==
    IF i > Len(s) THEN TRUE
    ELSE IF j > Len(t) THEN FALSE
    ELSE IF s[i] = t[j] THEN IsSubseqFrom(s, t, i + 1, j + 1)
    ELSE IsSubseqFrom(s, t, i, j + 1)

IsSubseq(s, t) == IsSubseqFrom(s, t, 1, 1)

\* The squared distance from p to the segment a-b is at most tol_sq, stated
\* geometrically: the nearest point of the segment is a, b, or the foot of the
\* perpendicular, whose squared distance is cross^2 / |b - a|^2.
WithinOfSegment(p, a, b, tol_sq) ==
    LET dx    == b[1] - a[1]
        dy    == b[2] - a[2]
        den   == dx * dx + dy * dy
        num   == (p[1] - a[1]) * dx + (p[2] - a[2]) * dy
        da    == (p[1] - a[1]) * (p[1] - a[1]) + (p[2] - a[2]) * (p[2] - a[2])
        db    == (p[1] - b[1]) * (p[1] - b[1]) + (p[2] - b[2]) * (p[2] - b[2])
        cross == dx * (p[2] - a[2]) - dy * (p[1] - a[1])
    IN  IF den = 0 \/ num <= 0 THEN da <= tol_sq
        ELSE IF num >= den THEN db <= tol_sq
        ELSE cross * cross <= tol_sq * den

Max(S) == CHOOSE x \in S : \A y \in S : y <= x

Min(S) == CHOOSE x \in S : \A y \in S : x <= y

\* C1: for every input of at least 2 points, and every min_spacing and
\* max_points, the output of _simplify_line_fast has at least 2 points, starts
\* with the first input point and ends with the last one.  (Stated of the calls
\* that return, on inputs that leave their first point.)  The code breaks it
\* on a closed ring whose points all lie within min_spacing of the first.
FastKeepsBothEnds ==
    (pc = "fast" /\ out.ok /\ Len(points) >= 2
                 /\ \E k \in 1..Len(points) : points[k] # points[1])
        => /\ Len(out.val) >= 2
           /\ out.val[1] = points[1]
           /\ Last(out.val) = Last(points)

\* C2: for every input and every max_points, _simplify_line_fast returns, and
\* returns no more than max_points points.  (Stated of the budgets from 2 up,
\* which the two end points fit in.)  The code breaks it at max_points = 2.
FastWithinBudget ==
    (pc = "fast" /\ max_points >= 2)
        => (out.ok /\ Len(out.val) <= max_points)

\* C3: _simplify_line returns an output no longer than its input that keeps
\* the first and the last input point, and every discarded point is within
\* tolerance of the segment joining the two kept points that enclose it.
ExactWithinTolerance ==
    pc = "exact" =>
        /\ Len(out.val) <= Len(points)
        /\ out.val = Select(points, keep, 1)
        /\ Len(points) >= 2 =>
            /\ {1, Len(points)} \subseteq keep
            /\ out.val[1] = points[1]
            /\ Last(out.val) = Last(points)
        /\ \A k \in (1..Len(points)) \ keep :
            LET i == Max({h \in keep : h < k})
                j == Min({h \in keep : h > k})
            IN  WithinOfSegment(points[k], points[i], points[j], tolerance * tolerance)

\* A run of the exact simplifier that discarded a point off the straight line
\* and kept an interior one.
ExactDiscardedAndKept ==
    /\ pc = "exact"
    /\ tolerance > 0
    /\ Len(out.val) >= 3
    /\ \E k \in (1..Len(points)) \ keep :
        ~WithinOfSegment(points[k], points[Max({h \in keep : h < k})],
                         points[Min({h \in keep : h > k})], 0)

\* C4: exact simplification is idempotent: run on its own output with the same
\* tolerance, _simplify_line returns that output unchanged.
ExactIdempotent ==
    pc = "exact_again" => out.val = prev.val

\* A second run whose input, the first run's output, is shorter than the
\* original and still has an interior point to consider.
ExactAgainOnReduced ==
    /\ pc = "exact_again"
    /\ Len(prev.val) >= 3
    /\ Len(prev.val) < Len(points)

\* C5: both simplifiers return an input of 2 or fewer points unchanged, and
\* whatever they return is a subsequence of the input: input points only, in
\* the input's order.
OutputIsSubsequence ==
    (pc \in {"exact", "exact_again", "fast"} /\ out.ok)
        => /\ Len(CallInput) <= 2 => out.val = CallInput
           /\ IsSubseq(out.val, CallInput)

\* A fast run that went through the stride down-sampling and dropped a point.
FastDownsampled ==
    /\ pc = "fast"
    /\ out.ok
    /\ min_spacing = 0
    /\ max_points >= 3
    /\ Len(points) > max_points
    /\ Len(out.val) < Len(points)

-----------------------------------------------------------------------------
(* The WKB polyline decoder: _parse_lines_from_wkb.                        *)
(* data is a sequence of bytes and offsets count from 0 as in the code, so *)
(* the byte at offset o is data[o + 1].  A double is kept as its 8 bytes,  *)
(* most significant first: the value struct.unpack reads, up to the        *)
(* meaning of the bits.  The model's 4-byte integers stay below 2^31.      *)

\* struct.unpack_from("<I" or ">I", data, offset)[0]
UnpackUint32(d, offset, little) ==
    IF offset + 4 > Len(d) THEN Raised("struct.error")
    ELSE LET b == [i \in 1..4 |-> d[offset + i]]
         IN  Returned(IF little
                      THEN b[1] + 256 * b[2] + 65536 * b[3] + 16777216 * b[4]
                      ELSE b[4] + 256 * b[3] + 65536 * b[2] + 16777216 * b[1])

\* struct.unpack_from("<d" or ">d", data, offset)[0]
UnpackDouble(d, offset, little) ==
    IF offset + 8 > Len(d) THEN Raised("struct.error")
    ELSE Returned(IF little
                  THEN [i \in 1..8 |-> d[offset + 9 - i]]
                  ELSE [i \in 1..8 |-> d[offset + i]])

\* The base type as the code's remainder by 1000.
BaseTypeMod1000(geom_type) == geom_type % 1000

\* base_type: geom_type less 3000, 2000 or 1000, by the first threshold reached
BaseType(geom_type) ==
    IF geom_type >= 3000 THEN geom_type - 3000
    ELSE IF geom_type >= 2000 THEN geom_type - 2000
    ELSE IF geom_type >= 1000 THEN geom_type - 1000
    ELSE geom_type

HasZ(geom_type) ==
    geom_type >= 3000 \/ (geom_type >= 1000 /\ geom_type < 2000)

\* The M ordinate is never skipped.
HasMNever(geom_type) == FALSE

HasM(geom_type) == geom_type >= 2000

\* offset += 16, and 8 more for each of Z and M
PointStride(has_z, has_m) ==
    16 + (IF has_z THEN 8 ELSE 0) + (IF has_m THEN 8 ELSE 0)

\* for _ in range(n): x, y = ...; points.append((x, y))
RECURSIVE ReadPoints(_, _, _, _, _, _, _)
ReadPoints(d, offset, n, little, has_z, has_m, pts) ==
    IF n = 0 THEN Returned([lines |-> <<pts>>, offset |-> offset])
    ELSE LET x == UnpackDouble(d, offset, little)
             y == UnpackDouble(d, offset + 8, little)
         IN  IF ~x.ok THEN x
             ELSE IF ~y.ok THEN y
             ELSE ReadPoints(d, offset + PointStride(has_z, has_m), n - 1,
                             little, has_z, has_m, Append(pts, <<x.val, y.val>>))

\* The offset stays where it was: the child's end offset is dropped.
OffsetNotAdvanced(offset, child_offset) == offset

\* child, offset = _parse_lines_from_wkb(data, offset)
OffsetAfterChild(offset, child_offset) == child_offset

RECURSIVE _parse_lines_from_wkb(_, _)
RECURSIVE ReadChildren(_, _, _, _)

\* for _ in range(n): child, offset = ...; lines.extend(child)
ReadChildren(d, offset, n, lines) ==
    IF n = 0 THEN Returned([lines |-> lines, offset |-> offset])
    ELSE LET child == _parse_lines_from_wkb(d, offset)
         IN  IF ~child.ok THEN child
             ELSE ReadChildren(d, OffsetAfterChild(offset, child.val.offset), n - 1,
                               lines \o child.val.lines)

_parse_lines_from_wkb(d, offset) ==
    IF offset >= Len(d) THEN Raised("IndexError")
    ELSE IF d[offset + 1] \notin {0, 1} THEN Raised("Invalid WKB byte order")
    ELSE LET little == d[offset + 1] = 1
             gt     == UnpackUint32(d, offset + 1, little)
             n      == UnpackUint32(d, offset + 5, little)
         IN  IF ~gt.ok THEN gt
             ELSE IF BaseType(gt.val) = 2
                  THEN IF ~n.ok THEN n
                       ELSE ReadPoints(d, offset + 9, n.val, little,
                                       HasZ(gt.val), HasM(gt.val), <<>>)
             ELSE IF BaseType(gt.val) = 5
                  THEN IF ~n.ok THEN n
                       ELSE ReadChildren(d, offset + 9, n.val, <<>>)
             ELSE Raised("Unsupported base geometry type")

-----------------------------------------------------------------------------
(* WKB inputs.  A geometry is [little, code, pts, kids]: its byte order,   *)
(* its 4-byte type code, the points of a LineString and the children of a  *)
(* MultiLineString.  Encode lays it out as the WKB standard does, with the *)
(* Z and M ordinates the type code's thousands digit announces.            *)

\* Bounds: the points of a LineString, the children of a MultiLineString.
MaxPts == 2

MaxKids == 2

\* The doubles 0.0, 1.0, 2.0 and -2.0
Dbl0 == <<0, 0, 0, 0, 0, 0, 0, 0>>

Dbl1 == <<63, 240, 0, 0, 0, 0, 0, 0>>

ZFill == <<64, 0, 0, 0, 0, 0, 0, 0>>

MFill == <<192, 0, 0, 0, 0, 0, 0, 0>>

Ordinates == {Dbl0, Dbl1}

WkbPoints == Ordinates \X Ordinates

LineCodes == {2, 1002, 2002, 3002}

MultiCodes == {5, 1005, 2005, 3005}

\* Type codes of every kind: the eight valid ones, other base types, and codes
\* from 4000 up.
TypeCodes == {0, 1, 2, 3, 5, 6, 999, 1000, 1002, 1005, 1999, 2002, 2004, 2005,
              3001, 3002, 3005, 3999, 4002, 4005, 5002, 7005}

\* The polylines children are drawn from: none, one and three points.
KidLines == {<<>>, <<<<Dbl0, Dbl1>>>>,
             <<<<Dbl0, Dbl0>>, <<Dbl1, Dbl0>>, <<Dbl1, Dbl1>>>>}

Pack32(v, little) ==
    LET b == <<v % 256, (v \div 256) % 256, (v \div 65536) % 256, (v \div 16777216) % 256>>
    IN  IF little THEN b ELSE <<b[4], b[3], b[2], b[1]>>

PackDouble(bits, little) ==
    IF little THEN [i \in 1..8 |-> bits[9 - i]] ELSE bits

AnnouncesZ(code) == code >= 3000 \/ (code >= 1000 /\ code < 2000)

AnnouncesM(code) == code >= 2000

EncodePoint(pt, little, code) ==
    PackDouble(pt[1], little) \o PackDouble(pt[2], little)
        \o (IF AnnouncesZ(code) THEN PackDouble(ZFill, little) ELSE <<>>)
        \o (IF AnnouncesM(code) THEN PackDouble(MFill, little) ELSE <<>>)

RECURSIVE EncodePoints(_, _, _, _)
EncodePoints(pts, k, little, code) ==
    IF k > Len(pts) THEN <<>>
    ELSE EncodePoint(pts[k], little, code) \o EncodePoints(pts, k + 1, little, code)

RECURSIVE Encode(_)
RECURSIVE EncodeKids(_, _)

EncodeKids(kids, k) ==
    IF k > Len(kids) THEN <<>>
    ELSE Encode(kids[k]) \o EncodeKids(kids, k + 1)

Encode(g) ==
    <<IF g.little THEN 1 ELSE 0>> \o Pack32(g.code, g.little)
        \o (IF g.code % 1000 = 2
            THEN Pack32(Len(g.pts), g.little) \o EncodePoints(g.pts, 1, g.little, g.code)
            ELSE IF g.code % 1000 = 5
            THEN Pack32(Len(g.kids), g.little) \o EncodeKids(g.kids, 1)
            ELSE <<>>)

\* The polylines a geometry holds, children flattened in order.
RECURSIVE GeomLines(_)
RECURSIVE KidsLines(_, _)

KidsLines(kids, k) ==
    IF k > Len(kids) THEN <<>>
    ELSE GeomLines(kids[k]) \o KidsLines(kids, k + 1)

GeomLines(g) ==
    IF g.code % 1000 = 2 THEN <<g.pts>>
    ELSE IF g.code % 1000 = 5 THEN KidsLines(g.kids, 1)
    ELSE <<>>

LineStrings ==
    [little : BOOLEAN, code : LineCodes,
     pts : UNION {[1..n -> WkbPoints] : n \in 0..MaxPts}, kids : {<<>>}]

KidStrings ==
    [little : BOOLEAN, code : LineCodes, pts : KidLines, kids : {<<>>}]

MultiLineStrings ==
    [little : BOOLEAN, code : MultiCodes, pts : {<<>>},
     kids : UNION {[1..n -> KidStrings] : n \in 0..MaxKids}]

\* One geometry per type code, with a two-point line and one child to decode.
CodedGeometries ==
    [little : BOOLEAN, code : TypeCodes,
     pts : {<<<<Dbl0, Dbl1>>, <<Dbl1, Dbl0>>>>},
     kids : {<<[little |-> FALSE, code |-> 1002, pts |-> <<<<Dbl1, Dbl1>>>>, kids |-> <<>>]>>}]

IsLineString(g) == g.code \in LineCodes

IsMultiLineString(g) ==
    /\ g.code \in MultiCodes
    /\ \A k \in 1..Len(g.kids) : IsLineString(g.kids[k])

\* Bytes before the start offset: not a byte order, so a decode from 0 fails.
Padding(n) == [i \in 1..n |-> 7]

InitWkb ==
    /\ pc = "bytes"
    /\ SimplifyIdle
    /\ DbfIdle
    /\ ShpIdle
    /\ GpkgIdle
    /\ BuildIdle
    /\ \E g \in LineStrings \cup MultiLineStrings \cup CodedGeometries :
       \E pad \in IF IsLineString(g) THEN {0, 1} ELSE {0} :
        /\ geom = g
        /\ start = pad
        /\ data = Padding(pad) \o Encode(g)
    /\ parsed = NoResult

Parse ==
    /\ pc = "bytes"
    /\ parsed' = _parse_lines_from_wkb(data, start)
    /\ pc' = "parsed"
    /\ UNCHANGED <<data, start, geom>>
    /\ UNCHANGED notWkbVars

NextWkb == Parse

SpecWkb == InitWkb /\ [][NextWkb]_vars

-----------------------------------------------------------------------------
(* Claims about the WKB decoder, checked under SpecWkb. *)

\* C6: a valid WKB LineString of N points, in either byte order and with 2-D,
\* Z, M or ZM ordinates, decodes to one polyline of its N (x, y) points in
\* order, and the returned offset is the input's length.
LineStringDecoded ==
    (pc = "parsed" /\ IsLineString(geom))
        => /\ parsed.ok
           /\ parsed.val.lines = <<geom.pts>>
           /\ Len(parsed.val.lines[1]) = Len(geom.pts)
           /\ parsed.val.offset = Len(data)

\* A big-endian ZM LineString of two different points, decoded from offset 1.
LineStringZMDecoded ==
    /\ pc = "parsed"
    /\ geom.code = 3002
    /\ ~geom.little
    /\ start = 1
    /\ Len(geom.pts) = 2
    /\ geom.pts[1] # geom.pts[2]
    /\ parsed.ok

\* C7: a valid WKB MultiLineString decodes to its children's polylines, one
\* per child LineString and in child order, each child read with its own byte
\* order and type code, and the returned offset is the input's length.
MultiLineStringDecoded ==
    (pc = "parsed" /\ IsMultiLineString(geom))
        => /\ parsed.ok
           /\ Len(parsed.val.lines) = Len(geom.kids)
           /\ parsed.val.lines = GeomLines(geom)
           /\ parsed.val.offset = Len(data)

\* Two three-point children that differ in byte order and in dimensions.
TwoChildrenDecoded ==
    /\ pc = "parsed"
    /\ IsMultiLineString(geom)
    /\ Len(geom.kids) = 2
    /\ Len(geom.kids[1].pts) = 3
    /\ Len(geom.kids[2].pts) = 3
    /\ geom.kids[1].little # geom.kids[2].little
    /\ geom.kids[1].code # geom.kids[2].code
    /\ parsed.ok

\* C8 as claimed: the base type is the type code mod 1000; the geometry is
\* decoded, with the ordinates the thousands digit announces, when that is 2 or
\* 5, and the decode fails as unsupported for every other base type.  The code
\* breaks it from 4000 up: 4002 has base type 1002.
BaseTypeIsCodeMod1000 ==
    pc = "parsed" =>
        IF geom.code % 1000 \in {2, 5}
        THEN /\ parsed.ok
             /\ parsed.val.lines = GeomLines(geom)
             /\ parsed.val.offset = Len(data)
        ELSE parsed.err = "Unsupported base geometry type"

\* C8 as amended: the base type is the type code less 3000, 2000 or 1000 (the
\* first of the thresholds it reaches), which is the code mod 1000 below 4000
\* only; the geometry is decoded, with the ordinates the thresholds select,
\* when the code is below 4000 and its base type 2 or 5, and the decode fails
\* as unsupported for every other code, every code from 4000 up among them.
BaseTypeIsCodeLessThreshold ==
    pc = "parsed" =>
        IF geom.code < 4000 /\ geom.code % 1000 \in {2, 5}
        THEN /\ parsed.ok
             /\ parsed.val.lines = GeomLines(geom)
             /\ parsed.val.offset = Len(data)
        ELSE parsed.err = "Unsupported base geometry type"

\* The type code 4002 was refused.
Code4002Refused ==
    /\ pc = "parsed"
    /\ geom.code = 4002
    /\ parsed.err = "Unsupported base geometry type"

-----------------------------------------------------------------------------
(* The DBF attribute reader: read_dbf_contours.                            *)
(* The file is a sequence of bytes and a text a sequence of character      *)
(* codes.  float() is modelled on signed decimals with an optional         *)
(* fraction, "inf", "infinity" and "nan"; the exponents and digit          *)
(* separators it also accepts do not occur in the model's inputs.          *)

\* b[lo:hi], offsets from 0, clipped to the sequence as Python clips a slice
Slice(b, lo, hi) == SubSeq(b, lo + 1, IF hi < Len(b) THEN hi ELSE Len(b))

\* struct.unpack("<I", b)[0] and struct.unpack("<H", b)[0]
UnpackLE32(b) == b[1] + 256 * b[2] + 65536 * b[3] + 16777216 * b[4]

UnpackLE16(b) == b[1] + 256 * b[2]

\* b.split(b"\x00", 1)[0]
RECURSIVE UpToNul(_)
UpToNul(b) ==
    IF b = <<>> \/ b[1] = 0 THEN <<>> ELSE <<b[1]>> \o UpToNul(Tail(b))

\* b.decode("ascii", "ignore")
IsAscii(c) == c < 128

DecodeAscii(b) == SelectSeq(b, IsAscii)

Upper(txt) == [i \in 1..Len(txt) |-> IF txt[i] \in 97..122 THEN txt[i] - 32 ELSE txt[i]]

Lower(txt) == [i \in 1..Len(txt) |-> IF txt[i] \in 65..90 THEN txt[i] + 32 ELSE txt[i]]

\* The characters str.strip() removes
Whitespace == {9, 10, 11, 12, 13, 28, 29, 30, 31, 32}

RECURSIVE Strip(_)
Strip(txt) ==
    IF txt = <<>> THEN txt
    ELSE IF txt[1] \in Whitespace THEN Strip(Tail(txt))
    ELSE IF Last(txt) \in Whitespace THEN Strip(SubSeq(txt, 1, Len(txt) - 1))
    ELSE txt

Digits == 48..57

RECURSIVE DigitsValue(_)
DigitsValue(txt) ==
    IF txt = <<>> THEN 0
    ELSE 10 * DigitsValue(SubSeq(txt, 1, Len(txt) - 1)) + (Last(txt) - 48)

RECURSIVE Pow10(_)
Pow10(n) == IF n = 0 THEN 1 ELSE 10 * Pow10(n - 1)

\* float(txt): a finite value is (-1)^neg * num / 10^scale
ParseFloat(txt) ==
    LET signed == txt # <<>> /\ txt[1] \in {43, 45}
        neg    == txt # <<>> /\ txt[1] = 45
        body   == IF signed THEN Tail(txt) ELSE txt
        dots   == {i \in 1..Len(body) : body[i] = 46}
        others == {i \in 1..Len(body) : body[i] \notin Digits /\ body[i] # 46}
        digits == SelectSeq(body, LAMBDA c : c \in Digits)
        dot    == CHOOSE i \in dots : TRUE
    IN  IF Lower(body) \in {<<105, 110, 102>>, <<105, 110, 102, 105, 110, 105, 116, 121>>}
        THEN Returned([kind |-> "inf", neg |-> neg, num |-> 0, scale |-> 0])
        ELSE IF Lower(body) = <<110, 97, 110>>
        THEN Returned([kind |-> "nan", neg |-> neg, num |-> 0, scale |-> 0])
        ELSE IF others # {} \/ Cardinality(dots) > 1 \/ digits = <<>>
        THEN Raised("ValueError")
        ELSE Returned([kind |-> "finite", neg |-> neg, num |-> DigitsValue(digits),
                       scale |-> IF dots = {} THEN 0 ELSE Len(body) - dot])

\* round(x) of a finite float: to the nearest integer, a tie to the even one
RoundHalfEven(num, scale) ==
    LET p == Pow10(scale)
        q == num \div p
        r == num % p
    IN  IF 2 * r > p THEN q + 1
        ELSE IF 2 * r < p THEN q
        ELSE IF q % 2 = 0 THEN q ELSE q + 1

\* int(round(float(cont_raw)))
IntRoundFloat(txt) ==
    LET f == ParseFloat(txt)
    IN  IF ~f.ok THEN f
        ELSE IF f.val.kind = "inf" THEN Raised("OverflowError")
        ELSE IF f.val.kind = "nan" THEN Raised("ValueError")
        ELSE Returned((IF f.val.neg THEN -1 ELSE 1) * RoundHalfEven(f.val.num, f.val.scale))

\* The name "CONT"
ContName == <<67, 79, 78, 84>>

\* while True: desc = f.read(32) ... fields.append(...)
RECURSIVE ReadFields(_, _, _)
ReadFields(file, pos, fields) ==
    LET desc == Slice(file, pos, pos + 32)
    IN  IF desc = <<>> THEN Raised("Unexpected EOF while reading DBF fields")
        ELSE IF desc[1] = 13 THEN Returned(fields)
        ELSE IF Len(desc) < 18 THEN Raised("IndexError")
        ELSE ReadFields(file, pos + 32,
                        Append(fields, [name      |-> DecodeAscii(UpToNul(Slice(desc, 0, 11))),
                                        field_type |-> desc[12],
                                        field_len |-> desc[17],
                                        decimals  |-> desc[18]]))

\* next((i for i, fd in enumerate(fields) if fd[0].upper() == "CONT"), None),
\* fields counted from 1 and None as 0
ContIndex(fields) ==
    LET hits == {i \in 1..Len(fields) : Upper(fields[i].name) = ContName}
    IN  IF hits = {} THEN 0 ELSE CHOOSE i \in hits : \A h \in hits : i <= h

\* for idx, (_, _, flen, _) in enumerate(fields): the text of field cont_idx
RECURSIVE ContRaw(_, _, _, _, _, _)
ContRaw(rec, fields, cont_idx, idx, pos, cont_raw) ==
    IF idx > Len(fields) THEN cont_raw
    ELSE LET txt == Strip(DecodeAscii(Slice(rec, pos, pos + fields[idx].field_len)))
         IN  ContRaw(rec, fields, cont_idx, idx + 1, pos + fields[idx].field_len,
                     IF idx = cont_idx THEN txt ELSE cont_raw)

\* contours.append(0) for a deleted record
DeletedAppended(acc) == Append(acc, 0)

\* for _ in range(num_records): rec = f.read(record_len) ...
RECURSIVE ReadRecords(_, _, _, _, _, _, _)
ReadRecords(file, pos, remaining, record_len, fields, cont_idx, acc) ==
    IF remaining = 0 THEN Returned(acc)
    ELSE LET rec == Slice(file, pos, pos + record_len)
         IN  IF Len(rec) < record_len THEN Returned(acc)
             ELSE IF rec = <<>> THEN Raised("IndexError")
             ELSE IF rec[1] = 42
             THEN ReadRecords(file, pos + record_len, remaining - 1, record_len,
                              fields, cont_idx, DeletedAppended(acc))
             ELSE LET elev == IntRoundFloat(ContRaw(rec, fields, cont_idx, 1, 1, <<>>))
                  IN  IF elev.ok
                      THEN ReadRecords(file, pos + record_len, remaining - 1, record_len,
                                       fields, cont_idx, Append(acc, elev.val))
                      ELSE IF elev.err = "ValueError"
                      THEN ReadRecords(file, pos + record_len, remaining - 1, record_len,
                                       fields, cont_idx, Append(acc, 0))
                      ELSE elev

read_dbf_contours(file) ==
    LET header == Slice(file, 0, 32)
    IN  IF Len(header) < 12 THEN Raised("struct.error")
        ELSE LET num_records == UnpackLE32(Slice(header, 4, 8))
                 header_len  == UnpackLE16(Slice(header, 8, 10))
                 record_len  == UnpackLE16(Slice(header, 10, 12))
                 fields      == ReadFields(file, 32, <<>>)
             IN  IF ~fields.ok THEN fields
                 ELSE IF ContIndex(fields.val) = 0 THEN Raised("DBF field CONT not found")
                 ELSE ReadRecords(file, header_len, num_records, record_len,
                                  fields.val, ContIndex(fields.val), <<>>)

-----------------------------------------------------------------------------
(* DBF inputs.  A table is its field layout, its records (the deletion     *)
(* flag, the text of the CONT field and the elevation that text stands     *)
(* for, 0 when it stands for none) and whether the file is cut short: the  *)
(* header then declares one record more than the file holds in full.       *)

\* Bound: the records of a table.
MaxRecs == 2

Field(name, len) == [name |-> name, len |-> len]

\* The layouts: CONT alone, CONT after ID, and lower-case cont before X
Layouts ==
    {<<Field(<<67, 79, 78, 84>>, 3)>>,
     <<Field(<<73, 68>>, 2), Field(<<67, 79, 78, 84>>, 3)>>,
     <<Field(<<99, 111, 110, 116>>, 3), Field(<<88>>, 1)>>}

Rec(deleted, text, elev) == [deleted |-> deleted, text |-> text, elev |-> elev]

\* " 20", "100", "-40", "2.5", "3.5": texts that stand for an elevation
NumericRecs ==
    {Rec(FALSE, <<32, 50, 48>>, 20), Rec(FALSE, <<49, 48, 48>>, 100),
     Rec(FALSE, <<45, 52, 48>>, -40), Rec(FALSE, <<50, 46, 53>>, 2),
     Rec(FALSE, <<51, 46, 53>>, 4)}

\* "abc", "   ", "nan", "inf": texts that yield no integer
NonNumericRecs ==
    {Rec(FALSE, <<97, 98, 99>>, 0), Rec(FALSE, <<32, 32, 32>>, 0),
     Rec(FALSE, <<110, 97, 110>>, 0), Rec(FALSE, <<105, 110, 102>>, 0)}

\* A deleted record, its CONT field still reading "100"
DeletedRecs == {Rec(TRUE, <<49, 48, 48>>, 0)}

Recs == NumericRecs \cup NonNumericRecs \cup DeletedRecs

Tables ==
    [fields : Layouts, recs : UNION {[1..n -> Recs] : n \in 0..MaxRecs}, cut : BOOLEAN]

Zeros(n) == [i \in 1..n |-> 0]

PackLE16(v) == <<v % 256, v \div 256>>

PackLE32(v) == <<v % 256, (v \div 256) % 256, (v \div 65536) % 256, v \div 16777216>>

RECURSIVE SumLen(_, _)
SumLen(fields, k) ==
    IF k > Len(fields) THEN 0 ELSE fields[k].len + SumLen(fields, k + 1)

\* The 32-byte descriptor: the name padded with NULs to 11 bytes, the type N,
\* the length at offset 16, no decimals
WriteDescriptor(f) ==
    f.name \o Zeros(11 - Len(f.name)) \o <<78>> \o Zeros(4) \o <<f.len, 0>> \o Zeros(14)

RECURSIVE WriteDescriptors(_, _)
WriteDescriptors(fields, k) ==
    IF k > Len(fields) THEN <<>>
    ELSE WriteDescriptor(fields[k]) \o WriteDescriptors(fields, k + 1)

\* A field other than CONT is filled with the digit 7
RECURSIVE WriteFields(_, _, _)
WriteFields(fields, k, text) ==
    IF k > Len(fields) THEN <<>>
    ELSE (IF Upper(fields[k].name) = ContName THEN text
          ELSE [i \in 1..fields[k].len |-> 55])
         \o WriteFields(fields, k + 1, text)

WriteRecord(fields, r) ==
    <<IF r.deleted THEN 42 ELSE 32>> \o WriteFields(fields, 1, r.text)

RECURSIVE WriteRecords(_, _, _)
WriteRecords(fields, recs, k) ==
    IF k > Len(recs) THEN <<>>
    ELSE WriteRecord(fields, recs[k]) \o WriteRecords(fields, recs, k + 1)

\* A file cut short ends two bytes into the record after the last; a whole
\* file ends with the end-of-file byte 0x1A.
WriteDbf(t) ==
    LET header_len == 32 + 32 * Len(t.fields) + 1
        record_len == 1 + SumLen(t.fields, 1)
        declared   == Len(t.recs) + (IF t.cut THEN 1 ELSE 0)
    IN  <<3, 126, 11, 1>> \o PackLE32(declared) \o PackLE16(header_len)
            \o PackLE16(record_len) \o Zeros(20)
            \o WriteDescriptors(t.fields, 1) \o <<13>>
            \o WriteRecords(t.fields, t.recs, 1)
            \o (IF t.cut THEN <<32, 49>> ELSE <<26>>)

InitDbf ==
    /\ pc = "file"
    /\ SimplifyIdle
    /\ WkbIdle
    /\ ShpIdle
    /\ GpkgIdle
    /\ BuildIdle
    /\ table \in Tables
    /\ dbf = WriteDbf(table)
    /\ contours = NoResult

ReadDbf ==
    /\ pc = "file"
    /\ contours' = read_dbf_contours(dbf)
    /\ pc' = "read"
    /\ UNCHANGED <<dbf, table>>
    /\ UNCHANGED notDbfVars

NextDbf == ReadDbf

SpecDbf == InitDbf /\ [][NextDbf]_vars

-----------------------------------------------------------------------------
(* Claims about the DBF reader, checked under SpecDbf. *)

\* C9: for a DBF whose header declares recordCount records (and that holds
\* them all), read_dbf_contours returns exactly recordCount integers, the i-th
\* from the i-th record: 0 for a deleted record, the record's own elevation
\* otherwise, whatever records come before it.  The code breaks it when a
\* record's CONT text is "inf": the decode raises and returns nothing (C10).
OneIntegerPerRecord ==
    (pc = "read" /\ ~table.cut)
        => /\ contours.ok
           /\ Len(contours.val) = Len(table.recs)
           /\ \A i \in 1..Len(table.recs) : contours.val[i] = table.recs[i].elev

\* C10: a record whose CONT text yields no integer contributes 0 and the
\* decode goes on: whatever the CONT texts, read_dbf_contours returns, with
\* one integer for each complete record.  The code breaks it on "inf":
\* round() raises OverflowError, which line 113 does not catch.
BadContYieldsZero ==
    pc = "read"
        => /\ contours.ok
           /\ Len(contours.val) = Len(table.recs)
           /\ \A i \in 1..Len(table.recs) :
                table.recs[i] \in NonNumericRecs => contours.val[i] = 0

\* What the reader does guarantee: the decode returns unless a record that is
\* not deleted reads "inf", and then gives every complete record its slot.
ReturnsUnlessInfinite ==
    pc = "read" =>
        IF \E i \in 1..Len(table.recs) : table.recs[i].text = <<105, 110, 102>>
        THEN contours.err = "OverflowError"
        ELSE /\ contours.ok
             /\ Len(contours.val) = Len(table.recs)
             /\ \A i \in 1..Len(table.recs) : contours.val[i] = table.recs[i].elev

-----------------------------------------------------------------------------
(* The shapefile reader: read_shp_polylines.                               *)
(* The file is a sequence of bytes read from a position, as f.read does;   *)
(* a double is kept as its 8 bytes, most significant first.                *)

\* struct.unpack("<i", b)[0]: a signed little-endian integer
UnpackLEInt(b) ==
    b[1] + 256 * b[2] + 65536 * b[3]
        + 16777216 * (IF b[4] >= 128 THEN b[4] - 256 ELSE b[4])

\* struct.unpack(">2i", rec_header)[1], on the 4 bytes of the second integer
UnpackBEInt(b) ==
    b[4] + 256 * b[3] + 65536 * b[2]
        + 16777216 * (IF b[1] >= 128 THEN b[1] - 256 ELSE b[1])

\* struct.unpack("<d", b)[0]
UnpackLEDouble(b) == [i \in 1..8 |-> b[9 - i]]

\* s[lo:hi] of a list, a negative index counted from the end
PySlice(s, lo, hi) ==
    LET n == Len(s)
        At(i) == IF i < 0 THEN (IF i + n < 0 THEN 0 ELSE i + n)
                 ELSE IF i > n THEN n ELSE i
    IN  SubSeq(s, At(lo) + 1, At(hi))

\* struct.unpack(f"<{num_parts}i", content[44 : 44 + 4 * num_parts])
ShpParts(content, num_parts) ==
    IF num_parts < 0 \/ Len(Slice(content, 44, 44 + 4 * num_parts)) # 4 * num_parts
    THEN Raised("struct.error")
    ELSE Returned([i \in 1..num_parts |->
                      UnpackLEInt(Slice(content, 40 + 4 * i, 44 + 4 * i))])

\* for i in range(num_points): x, y = struct.unpack("<2d", ...)
ShpPoints(content, points_off, num_points) ==
    IF num_points > 0 /\ points_off + 16 * num_points > Len(content)
    THEN Raised("struct.error")
    ELSE Returned([i \in 1..num_points |->
                      <<UnpackLEDouble(Slice(content, points_off + 16 * (i - 1),
                                             points_off + 16 * (i - 1) + 8)),
                        UnpackLEDouble(Slice(content, points_off + 16 * (i - 1) + 8,
                                             points_off + 16 * i))>>])

\* Every part runs to the end of the record.
SegmentEndOfRecord(parts, i, num_points) == num_points

\* end = parts[i + 1] if i + 1 < len(parts) else num_points, parts counted from 1
SegmentEnd(parts, i, num_points) ==
    IF i < Len(parts) THEN parts[i + 1] ELSE num_points

\* for i, start in enumerate(parts): ... if len(line) >= 2: lines.append(line)
RECURSIVE SplitParts(_, _, _, _, _)
SplitParts(pts, parts, num_points, i, lines) ==
    IF i > Len(parts) THEN lines
    ELSE LET line == PySlice(pts, parts[i], SegmentEnd(parts, i, num_points))
         IN  SplitParts(pts, parts, num_points, i + 1,
                        IF Len(line) >= 2 THEN Append(lines, line) ELSE lines)

\* The record leaves no entry.
EntrySkipped(acc) == acc

\* shapes.append([]) for a null shape and for a shape of another type
EmptyEntry(acc) == Append(acc, <<>>)

\* The lines of one polyline record
ShpRecordLines(content) ==
    IF Len(content) < 44 THEN Raised("struct.error")
    ELSE LET num_parts  == UnpackLEInt(Slice(content, 36, 40))
             num_points == UnpackLEInt(Slice(content, 40, 44))
             parts      == ShpParts(content, num_parts)
             pts        == ShpPoints(content, 44 + 4 * num_parts, num_points)
         IN  IF ~parts.ok THEN parts
             ELSE IF ~pts.ok THEN pts
             ELSE Returned(SplitParts(pts.val, parts.val, num_points, 1, <<>>))

\* while True: rec_header = f.read(8) ...
RECURSIVE ReadShapes(_, _, _)
ReadShapes(file, pos, acc) ==
    LET rec_header == Slice(file, pos, pos + 8)
    IN  IF Len(rec_header) < 8 THEN Returned(acc)
        ELSE LET content_bytes == UnpackBEInt(Slice(rec_header, 4, 8)) * 2
                 content == IF content_bytes < 0 THEN Slice(file, pos + 8, Len(file))
                            ELSE Slice(file, pos + 8, pos + 8 + content_bytes)
                 next    == pos + 8 + Len(content)
             IN  IF Len(content) < content_bytes THEN Returned(acc)
                 ELSE IF Len(content) < 4 THEN Raised("struct.error")
                 ELSE LET rec_shape_type == UnpackLEInt(Slice(content, 0, 4))
                          lines == ShpRecordLines(content)
                      IN  IF rec_shape_type = 0 THEN ReadShapes(file, next, EmptyEntry(acc))
                          ELSE IF rec_shape_type \notin {3, 13, 23}
                          THEN ReadShapes(file, next, EmptyEntry(acc))
                          ELSE IF ~lines.ok THEN lines
                          ELSE ReadShapes(file, next, Append(acc, lines.val))

read_shp_polylines(file) ==
    LET header == Slice(file, 0, 100)
    IN  IF Len(header) < 100 THEN Raised("Invalid shapefile header")
        ELSE IF UnpackLEInt(Slice(header, 32, 36)) \notin {3, 13, 23}
        THEN Raised("Unsupported shapefile type")
        ELSE LET read == ReadShapes(file, 100, <<>>)
             IN  IF ~read.ok THEN read
                 ELSE Returned([bounds |-> [i \in 1..4 |->
                                    UnpackLEDouble(Slice(header, 28 + 8 * i, 36 + 8 * i))],
                                shapes |-> read.val])

-----------------------------------------------------------------------------
(* Shapefile inputs.  A file is its header shape type, its complete        *)
(* records and the way it ends: whole, or cut within the 8-byte header or  *)
(* within the content of one more record.  A record is its shape type, its *)
(* part-start indices, its number of points and its points; point k of a   *)
(* record made by Shape is ShpPoint(k), so its points are all different.   *)

\* Bound: the complete records of a file.
MaxShapes == 2

\* The doubles 3.0, 4.0 and 5.0
Dbl3 == <<64, 8, 0, 0, 0, 0, 0, 0>>

Dbl4 == <<64, 16, 0, 0, 0, 0, 0, 0>>

Dbl5 == <<64, 20, 0, 0, 0, 0, 0, 0>>

ShpOrdinates == <<Dbl0, Dbl1, Dbl3, Dbl4>>

\* Point k of a record, k from 0
ShpPoint(k) == <<ShpOrdinates[(k % 4) + 1], ShpOrdinates[((k \div 4) % 4) + 1]>>

Shape(type, parts, n) ==
    [type |-> type, parts |-> parts, n |-> n, pts |-> [k \in 1..n |-> ShpPoint(k - 1)]]

\* A null shape, a Point and a MultiPatch, and polylines of types 3, 13 and 23:
\* one part, one degenerate part, the parts [0, 3, 7] of 10 points, a leading
\* degenerate part, an empty last part, no part at all, and a first part that
\* starts after point 0
ShapeRecs ==
    {Shape(0, <<>>, 0), Shape(1, <<>>, 1), Shape(31, <<>>, 0),
     Shape(3, <<0>>, 2), Shape(3, <<0>>, 1), Shape(3, <<0, 3, 7>>, 10),
     Shape(13, <<0, 1, 3>>, 5), Shape(13, <<0, 2, 4>>, 4), Shape(23, <<0, 2>>, 4),
     Shape(23, <<>>, 0), Shape(3, <<1>>, 3)}

\* The header's shape type: the polyline types, and Point
FileTypes == {3, 13, 23, 1}

Cuts == {"whole", "header", "content"}

Shapefiles ==
    [type : FileTypes, recs : UNION {[1..n -> ShapeRecs] : n \in 0..MaxShapes}, cut : Cuts]

IsPolyline(r) == r.type \in {3, 13, 23}

PackBE32(v) == Pack32(v, FALSE)

RECURSIVE WriteParts(_, _)
WriteParts(parts, k) ==
    IF k > Len(parts) THEN <<>>
    ELSE Pack32(parts[k], TRUE) \o WriteParts(parts, k + 1)

RECURSIVE WriteShpPoints(_, _)
WriteShpPoints(pts, k) ==
    IF k > Len(pts) THEN <<>>
    ELSE PackDouble(pts[k][1], TRUE) \o PackDouble(pts[k][2], TRUE)
         \o WriteShpPoints(pts, k + 1)

\* A range and one value for each point: the Z block of a PolyLineZ, the M
\* block of a PolyLineZ or PolyLineM
RECURSIVE WriteMeasures(_, _)
WriteMeasures(fill, n) ==
    IF n = 0 THEN PackDouble(fill, TRUE) \o PackDouble(fill, TRUE)
    ELSE WriteMeasures(fill, n - 1) \o PackDouble(fill, TRUE)

WriteBox == PackDouble(Dbl0, TRUE) \o PackDouble(Dbl0, TRUE)
                \o PackDouble(Dbl4, TRUE) \o PackDouble(Dbl4, TRUE)

WriteContent(r) ==
    Pack32(r.type, TRUE)
        \o (IF IsPolyline(r)
            THEN WriteBox \o Pack32(Len(r.parts), TRUE) \o Pack32(r.n, TRUE)
                 \o WriteParts(r.parts, 1) \o WriteShpPoints(r.pts, 1)
                 \o (IF r.type = 13 THEN WriteMeasures(Dbl5, r.n) ELSE <<>>)
                 \o (IF r.type \in {13, 23} THEN WriteMeasures(MFill, r.n) ELSE <<>>)
            ELSE IF r.type = 1
            THEN PackDouble(Dbl1, TRUE) \o PackDouble(Dbl3, TRUE)
            ELSE <<>>)

\* The record header: the record number and the content length in 16-bit words
WriteShape(r, number) ==
    PackBE32(number) \o PackBE32(Len(WriteContent(r)) \div 2) \o WriteContent(r)

RECURSIVE WriteShapes(_, _)
WriteShapes(recs, k) ==
    IF k > Len(recs) THEN <<>>
    ELSE WriteShape(recs[k], k) \o WriteShapes(recs, k + 1)

\* What follows the last complete record: nothing, 3 bytes of a record header,
\* or the header of a two-point polyline and the first 50 bytes of its content
WriteCut(cut, number) ==
    IF cut = "header" THEN <<0, 0, 0>>
    ELSE IF cut = "content"
    THEN SubSeq(WriteShape(Shape(3, <<0>>, 2), number), 1, 58)
    ELSE <<>>

\* The 100-byte header: the file code 9994, the file length in words, the
\* version 1000, the shape type, the bounding box and the Z and M ranges
WriteShp(f) ==
    LET body == WriteShapes(f.recs, 1) \o WriteCut(f.cut, Len(f.recs) + 1)
    IN  PackBE32(9994) \o Zeros(20) \o PackBE32((100 + Len(body)) \div 2)
            \o Pack32(1000, TRUE) \o Pack32(f.type, TRUE)
            \o WriteBox \o Zeros(32) \o body

InitShp ==
    /\ pc = "shp"
    /\ SimplifyIdle
    /\ WkbIdle
    /\ DbfIdle
    /\ GpkgIdle
    /\ BuildIdle
    /\ shapefile \in Shapefiles
    /\ shp = WriteShp(shapefile)
    /\ shapes = NoResult

ReadShp ==
    /\ pc = "shp"
    /\ shapes' = read_shp_polylines(shp)
    /\ pc' = "shp_read"
    /\ UNCHANGED <<shp, shapefile>>
    /\ UNCHANGED notShpVars

NextShp == ReadShp

SpecShp == InitShp /\ [][NextShp]_vars

-----------------------------------------------------------------------------
(* Claims about the shapefile reader, checked under SpecShp. *)

\* Part i of a record as the format defines it: the points from its start
\* index up to the next part's start index, or to the end for the last part.
PartOf(r, i) ==
    LET lo == r.parts[i]
        hi == IF i = Len(r.parts) THEN r.n ELSE r.parts[i + 1]
    IN  [k \in 1..(hi - lo) |-> r.pts[lo + k]]

HasTwoPoints(line) == Len(line) >= 2

\* The parts of a record that have at least 2 points, in order
PartsKept(r) ==
    IF IsPolyline(r)
    THEN SelectSeq([i \in 1..Len(r.parts) |-> PartOf(r, i)], HasTwoPoints)
    ELSE <<>>

Lengths(lines) == [i \in 1..Len(lines) |-> Len(lines[i])]

\* C11: for a polyline record with part-start indices p0 < p1 < ... < pk and
\* numPoints points, read_shp_polylines yields the segments
\* points[p_i : p_(i+1)] in order, the last one running to numPoints, less
\* exactly the segments of fewer than 2 points (parts [0, 3, 7] of 10 points
\* give segments of 3, 4 and 3 points), and every point it yields is an X/Y
\* pair of the record, never a Z or M value.
PartsSplitInOrder ==
    (pc = "shp_read" /\ shapefile.type \in {3, 13, 23})
        => /\ shapes.ok
           /\ \A i \in 1..Len(shapefile.recs) :
                IsPolyline(shapefile.recs[i]) =>
                    /\ i <= Len(shapes.val.shapes)
                    /\ shapes.val.shapes[i] = PartsKept(shapefile.recs[i])
                    /\ (shapefile.recs[i].parts = <<0, 3, 7>> /\ shapefile.recs[i].n = 10)
                         => Lengths(shapes.val.shapes[i]) = <<3, 4, 3>>

\* A file read with the three-part record of 10 points and with a PolyLineZ
\* record whose first part, one point, was discarded.
ThreePartsAndOneDiscarded ==
    /\ pc = "shp_read"
    /\ shapes.ok
    /\ Len(shapefile.recs) = 2
    /\ shapefile.recs[1] = Shape(3, <<0, 3, 7>>, 10)
    /\ Len(shapes.val.shapes[1]) = 3
    /\ shapefile.recs[2] = Shape(13, <<0, 1, 3>>, 5)
    /\ Len(shapes.val.shapes[2]) = 2

\* C12: for a shapefile whose header shape type is 3, 13 or 23,
\* read_shp_polylines returns one entry for each complete record, in file
\* order, entry i holding the lines of record i: the entry is empty for a
\* record of shape type 0 or of any type outside {3, 13, 23}, and reading
\* stops, with no error and no entry, at the first record whose 8-byte header
\* or declared content is incomplete.
OneEntryPerCompleteRecord ==
    (pc = "shp_read" /\ shapefile.type \in {3, 13, 23})
        => /\ shapes.ok
           /\ Len(shapes.val.shapes) = Len(shapefile.recs)
           /\ \A i \in 1..Len(shapefile.recs) :
                IF IsPolyline(shapefile.recs[i])
                THEN shapes.val.shapes[i] = PartsKept(shapefile.recs[i])
                ELSE shapes.val.shapes[i] = <<>>

\* A file cut within a record's content, read after a Point record and a
\* polyline: two entries, the first empty.
CutAfterOtherType ==
    /\ pc = "shp_read"
    /\ shapefile.cut = "content"
    /\ Len(shapefile.recs) = 2
    /\ shapefile.recs[1].type = 1
    /\ shapefile.recs[2] = Shape(23, <<0, 2>>, 4)
    /\ shapes.ok
    /\ Len(shapes.val.shapes) = 2
    /\ Len(shapes.val.shapes[2]) = 2

-----------------------------------------------------------------------------
(* The GeoPackage blob header: _gpkg_blob_to_wkb. *)

\* The magic marker b"GP"
Magic == <<71, 80>>

\* The envelope code is taken from bits 0-2 of the flags byte.
EnvelopeCodeUnshifted(flags) == flags % 8

\* (flags >> 1) & 0x07
EnvelopeCode(flags) == (flags \div 2) % 8

\* {0: 0, 1: 32, 2: 48, 3: 48, 4: 64}.get(envelope_code), None as -1
EnvelopeBytes(envelope_code) ==
    CASE envelope_code = 0 -> 0
      [] envelope_code = 1 -> 32
      [] envelope_code \in {2, 3} -> 48
      [] envelope_code = 4 -> 64
      [] OTHER -> -1

_gpkg_blob_to_wkb(b) ==
    IF Len(b) < 8 \/ Slice(b, 0, 2) # Magic
    THEN Raised("Invalid GeoPackage geometry blob")
    ELSE LET flags          == b[4]
             envelope_bytes == EnvelopeBytes(EnvelopeCode(flags))
         IN  IF envelope_bytes = -1 THEN Raised("Unsupported envelope code")
             ELSE Returned(Slice(b, 8 + envelope_bytes, Len(b)))

-----------------------------------------------------------------------------
(* Blob inputs.  A blob is written from its marker, the fields of its      *)
(* flags byte, its envelope and its WKB payload, and may be cut short.     *)
(* The envelope written is the one the GeoPackage standard gives the       *)
(* envelope code (none for the reserved codes 5 to 7); its bytes count up  *)
(* from 101 and the payload's from 201, so every byte shows where it was.  *)

\* Bound: the bytes of the payload.
MaxPayload == 3

Markers == {Magic, <<71, 81>>, <<103, 112>>, <<80, 71>>}

StandardEnvelope == <<0, 32, 48, 48, 64, 0, 0, 0>>

\* The flags byte: the byte order in bit 0, the envelope code in bits 1-3, the
\* empty-geometry flag in bit 4 and the extended type in bit 5
WriteFlags(g) ==
    (IF g.little THEN 1 ELSE 0) + 2 * g.code + (IF g.empty THEN 16 ELSE 0)
        + (IF g.extended THEN 32 ELSE 0)

\* The marker, the version 0, the flags, the srs_id 4326, envelope and payload
WriteBlob(g) ==
    g.marker \o <<0, WriteFlags(g)>> \o Pack32(4326, g.little)
        \o [i \in 1..StandardEnvelope[g.code + 1] |-> 100 + i]
        \o [i \in 1..g.payload |-> 200 + i]

\* The lengths a blob is cut to: within the marker, the header and the
\* envelope; 0 is the whole blob
CutLengths == {0, 1, 2, 3, 4, 7, 8, 20}

Blobs ==
    [marker : Markers, little : BOOLEAN, code : 0..7, empty : BOOLEAN,
     extended : BOOLEAN, payload : 0..MaxPayload, cut : CutLengths]

InitGpkg ==
    /\ pc = "blob"
    /\ SimplifyIdle
    /\ WkbIdle
    /\ DbfIdle
    /\ ShpIdle
    /\ BuildIdle
    /\ gpkg \in Blobs
    /\ blob = IF gpkg.cut = 0 THEN WriteBlob(gpkg)
              ELSE Slice(WriteBlob(gpkg), 0, gpkg.cut)
    /\ wkb = NoResult

BlobToWkb ==
    /\ pc = "blob"
    /\ wkb' = _gpkg_blob_to_wkb(blob)
    /\ pc' = "stripped"
    /\ UNCHANGED <<blob, gpkg>>
    /\ UNCHANGED notGpkgVars

NextGpkg == BlobToWkb

SpecGpkg == InitGpkg /\ [][NextGpkg]_vars

-----------------------------------------------------------------------------
(* Claims about the blob header, checked under SpecGpkg. *)

StartsWithMagic == Len(blob) >= 2 /\ gpkg.marker = Magic

\* The blob after its first n bytes
BytesAfter(n) == [i \in 1..(Len(blob) - n) |-> blob[n + i]]

FormatErrors == {"Invalid GeoPackage geometry blob", "Unsupported envelope code"}

\* C13 as claimed: _gpkg_blob_to_wkb fails with a format error when the blob
\* does not start with the 2-byte magic marker or when the envelope code in
\* bits 1-3 of the flags byte is outside {0, 1, 2, 3, 4}; otherwise it returns
\* exactly the bytes of the blob after the first 8 + envelopeBytes bytes, with
\* envelopeBytes from the table {0:0, 1:32, 2:48, 3:48, 4:64}.  (Stated of the
\* blobs that have a flags byte or lack the marker.)  The code breaks it on a
\* blob of 4 to 7 bytes with the marker and a code of the table: it fails.
HeaderStrippedUnlessBadMagicOrCode ==
    (pc = "stripped" /\ (Len(blob) >= 4 \/ ~StartsWithMagic))
        => IF ~StartsWithMagic \/ gpkg.code \notin 0..4
           THEN wkb.err \in FormatErrors
           ELSE /\ wkb.ok
                /\ wkb.val = BytesAfter(8 + StandardEnvelope[gpkg.code + 1])

\* C13 as amended: _gpkg_blob_to_wkb fails with a format error when the blob
\* has fewer than 8 bytes, when it does not start with the 2-byte magic marker
\* or when the envelope code in bits 1-3 of the flags byte is outside
\* {0, 1, 2, 3, 4}; otherwise it returns exactly the bytes of the blob after
\* the first 8 + envelopeBytes bytes (none when the blob is no longer than
\* that), with envelopeBytes from the table {0:0, 1:32, 2:48, 3:48, 4:64}.
HeaderStrippedUnlessShortBadMagicOrCode ==
    pc = "stripped"
        => IF Len(blob) < 8 \/ ~StartsWithMagic \/ gpkg.code \notin 0..4
           THEN wkb.err \in FormatErrors
           ELSE /\ wkb.ok
                /\ wkb.val = BytesAfter(8 + StandardEnvelope[gpkg.code + 1])
                /\ (gpkg.cut = 0 => Len(wkb.val) = gpkg.payload)

\* A blob of 7 bytes that has the marker and the envelope code 1 was refused.
ShortBlobRefused ==
    /\ pc = "stripped"
    /\ StartsWithMagic
    /\ Len(blob) = 7
    /\ gpkg.code = 1
    /\ ~wkb.ok

\* What a whole blob gives: its payload, whatever the other bits of the flags.
WholeBlobGivesPayload ==
    (pc = "stripped" /\ gpkg.cut = 0 /\ gpkg.marker = Magic /\ gpkg.code \in 0..4)
        => /\ wkb.ok
           /\ wkb.val = [i \in 1..gpkg.payload |-> 200 + i]

-----------------------------------------------------------------------------
(* The build entry points: build_overlay (Seoul), build_region (one        *)
(* region of the regions script) and main of the Jeju script.  A run is    *)
(* followed step by step through the sources it opens, reads and closes;   *)
(* `with path.open(...)` and `try: ... finally: conn.close()` release the  *)
(* source whether the body returned or raised.  The coordinates of the     *)
(* builds are integer-valued doubles; the map projection of the Jeju route *)
(* is left out, route_lines holding the lines as decoded.                  *)

RECURSIVE Pow2(_)
Pow2(n) == IF n = 0 THEN 1 ELSE 2 * Pow2(n - 1)

\* The number a double stands for, from its sign, its exponent and the top 20
\* bits of its mantissa: exact for the integers below 1024
DoubleValue(bits) ==
    LET exponent  == (bits[1] % 128) * 16 + bits[2] \div 16
        mantissa  == (bits[2] % 16) * 65536 + bits[3] * 256 + bits[4]
        magnitude == IF exponent < 1023 THEN 0
                     ELSE ((1048576 + mantissa) * Pow2(exponent - 1023)) \div 1048576
    IN  IF bits[1] >= 128 THEN -magnitude ELSE magnitude

\* The (x, y) floats of a decoded line
Coordinates(line) ==
    [k \in 1..Len(line) |-> <<DoubleValue(line[k][1]), DoubleValue(line[k][2])>>]

\* round(x, 2): an integer-valued float is its own rounding
Round2(x) == x

_round_line(line) == [k \in 1..Len(line) |-> <<Round2(line[k][1]), Round2(line[k][2])>>]

\* The defaults of --elev-step, --major-step, --major-tolerance and
\* --minor-tolerance
ElevStep == 20

MajorStep == 100

MajorTolerance == 8

MinorTolerance == 12

\* The source is released only when the body returned.
HeldOnFailure(sources, source, ok) == IF ok THEN sources \ {source} ELSE sources

\* The exit of `with` and the `finally: conn.close()`: the source is released
\* whether the body returned (ok) or raised
Released(sources, source, ok) == sources \ {source}

\* contours.extend([0] * (len(shapes) - len(contours)))
PadContours(conts, n) ==
    IF Len(conts) < n THEN conts \o Zeros(n - Len(conts)) ELSE conts

\* Every record is given the elevation of the first.
ElevationOfFirst(conts, idx) == conts[1]

\* elev = contours[idx], records counted from 1
ElevationAt(conts, idx) == conts[idx]

\* if elev_step > 0 and elev % elev_step != 0: continue (build_overlay);
\* if elev % 20 != 0: continue (build_region)
StepFiltered(e, elev) ==
    IF e = "seoul" THEN ElevStep > 0 /\ elev % ElevStep # 0
    ELSE elev % 20 # 0

\* is_major = major_step > 0 and elev % major_step == 0 (build_overlay);
\* is_major = elev % 100 == 0 (build_region)
IsMajor(e, elev) ==
    IF e = "seoul" THEN MajorStep > 0 /\ elev % MajorStep = 0
    ELSE elev % 100 = 0

\* simplified = _simplify_line(line, tolerance) (build_overlay);
\* simplified = _simplify_line_fast(line, min_spacing, max_points) (build_region)
Simplified(e, line, is_major) ==
    IF e = "seoul"
    THEN Returned(_simplify_line(line, IF is_major THEN MajorTolerance ELSE MinorTolerance))
    ELSE _simplify_line_fast(line, IF is_major THEN 22 ELSE 32,
                             IF is_major THEN 150 ELSE 110)

\* for line in lines: ... output_lines.append({...}).  An emitted contour also
\* records where it came from (code, record, part), which the code does not
\* keep: the claims are stated with it.
RECURSIVE EmitLines(_, _, _, _, _, _, _, _)
EmitLines(e, lines, part, elev, is_major, no, idx, acc) ==
    IF part > Len(lines) THEN Returned(acc)
    ELSE LET simplified == Simplified(e, Coordinates(lines[part]), is_major)
         IN  IF ~simplified.ok THEN simplified
             ELSE IF Len(simplified.val) < 2
             THEN EmitLines(e, lines, part + 1, elev, is_major, no, idx, acc)
             ELSE EmitLines(e, lines, part + 1, elev, is_major, no, idx,
                            Append(acc, [elev   |-> elev,
                                         major  |-> is_major,
                                         line   |-> _round_line(simplified.val),
                                         code   |-> no,
                                         record |-> idx,
                                         part   |-> part]))

\* for idx, lines in enumerate(shapes): ...
RECURSIVE EmitShapes(_, _, _, _, _, _)
EmitShapes(e, shps, conts, no, idx, acc) ==
    IF idx > Len(shps) THEN Returned(acc)
    ELSE LET elev == ElevationAt(conts, idx)
         IN  IF StepFiltered(e, elev) THEN EmitShapes(e, shps, conts, no, idx + 1, acc)
             ELSE LET emitted == EmitLines(e, shps[idx], 1, elev, IsMajor(e, elev),
                                           no, idx, acc)
                  IN  IF ~emitted.ok THEN emitted
                      ELSE EmitShapes(e, shps, conts, no, idx + 1, emitted.val)

\* _merge_bounds(a, b), None as <<>>
_merge_bounds(a, b) ==
    IF a = <<>> THEN b
    ELSE <<IF a[1] < b[1] THEN a[1] ELSE b[1], IF a[2] < b[2] THEN a[2] ELSE b[2],
           IF a[3] > b[3] THEN a[3] ELSE b[3], IF a[4] > b[4] THEN a[4] ELSE b[4]>>

\* The "bounds" of the output: the bounds less and plus the padding of 2000
PaddedBounds(b) == <<b[1] - 2000, b[2] - 2000, b[3] + 2000, b[4] + 2000>>

\* load_route_lines, between connect and close: the blob of the first row,
\* stripped of its header and decoded
RouteLines(row) ==
    IF ~row.present THEN Raised("Route table has no rows")
    ELSE LET stripped == _gpkg_blob_to_wkb(row.blob)
         IN  IF ~stripped.ok THEN stripped
             ELSE LET lines_ll == _parse_lines_from_wkb(stripped.val, 0)
                  IN  IF ~lines_ll.ok THEN lines_ll
                      ELSE Returned([k \in 1..Len(lines_ll.val.lines) |->
                                        Coordinates(lines_ll.val.lines[k])])

\* for line in lines: for x, y in line: (compute_bounds)
PointsOf(lines) ==
    UNION {{lines[k][i] : i \in 1..Len(lines[k])} : k \in 1..Len(lines)}

\* compute_bounds raises when the lines hold no coordinates
HasCoordinates(lines) == PointsOf(lines) # {}

\* for line in lines: if len(line) < 2: continue ... contours.append({...})
RECURSIVE ContourLines(_, _, _, _, _)
ContourLines(lines, k, elev_int, is_major, acc) ==
    IF k > Len(lines) THEN acc
    ELSE LET simplified == _simplify_line(Coordinates(lines[k]),
                                          IF is_major THEN 8 ELSE 12)
         IN  IF Len(lines[k]) < 2 \/ Len(simplified) < 2
             THEN ContourLines(lines, k + 1, elev_int, is_major, acc)
             ELSE ContourLines(lines, k + 1, elev_int, is_major,
                               Append(acc, [elev  |-> elev_int,
                                            line  |-> simplified,
                                            major |-> is_major]))

\* load_contours, between connect and close: for geom_blob, elev in rows: ...
RECURSIVE Contours(_, _, _)
Contours(rows, k, acc) ==
    IF k > Len(rows) THEN Returned(acc)
    ELSE LET stripped == _gpkg_blob_to_wkb(rows[k].blob)
         IN  IF ~stripped.ok THEN stripped
             ELSE LET lines == _parse_lines_from_wkb(stripped.val, 0)
                  IN  IF ~lines.ok THEN lines
                      ELSE Contours(rows, k + 1,
                                    ContourLines(lines.val.lines, 1, rows[k].elev,
                                                 rows[k].elev % 100 = 0, acc))

-----------------------------------------------------------------------------
(* Build inputs.  A code of the shapefile builds is a shapefile and the    *)
(* DBF table beside it; the Jeju build reads the row of the route table    *)
(* and the rows of the contour query, each a blob and an elevation.        *)

\* Bound: the records of a shapefile and of a DBF table of the builds.
MaxLines == 2

\* The double 32.0
Dbl32 == <<64, 64, 0, 0, 0, 0, 0, 0>>

Polyline(type, parts, pts) ==
    [type |-> type, parts |-> parts, n |-> Len(pts), pts |-> pts]

\* (0,0)-(32,0)
StraightLine == Polyline(3, <<0>>, <<<<Dbl0, Dbl0>>, <<Dbl32, Dbl0>>>>)

\* (0,0)-(1,1)-(32,0): the middle point is within every tolerance and spacing
BentLine == Polyline(3, <<0>>, <<<<Dbl0, Dbl0>>, <<Dbl1, Dbl1>>, <<Dbl32, Dbl0>>>>)

\* (0,0)-(0,1)-(0,0): a closed ring 1 across
SmallRing == Polyline(3, <<0>>, <<<<Dbl0, Dbl0>>, <<Dbl0, Dbl1>>, <<Dbl0, Dbl0>>>>)

\* Two parts of a PolyLineZ: (0,0)-(32,0) and (0,1)-(32,1)
TwoParts ==
    Polyline(13, <<0, 2>>, <<<<Dbl0, Dbl0>>, <<Dbl32, Dbl0>>, <<Dbl0, Dbl1>>, <<Dbl32, Dbl1>>>>)

BuildShapes == {Shape(0, <<>>, 0), StraightLine, BentLine, SmallRing, TwoParts}

\* The shapefiles of polylines, one of Points and one cut short
BuildShapefiles ==
    [type : {3}, recs : UNION {[1..n -> BuildShapes] : n \in 0..MaxLines}, cut : {"whole"}]
        \cup {[type |-> 1, recs |-> <<>>, cut |-> "whole"],
              [type |-> 3, recs |-> <<TwoParts>>, cut |-> "content"]}

\* "100", " 20", "2.5", "inf" and a deleted record
BuildRecs ==
    {Rec(FALSE, <<49, 48, 48>>, 100), Rec(FALSE, <<32, 50, 48>>, 20),
     Rec(FALSE, <<50, 46, 53>>, 2), Rec(FALSE, <<105, 110, 102>>, 0),
     Rec(TRUE, <<49, 48, 48>>, 0)}

\* The tables with a CONT field, and one without
BuildTables ==
    [fields : {<<Field(ContName, 3)>>},
     recs : UNION {[1..n -> BuildRecs] : n \in 0..MaxLines}, cut : {FALSE}]
        \cup {[fields |-> <<Field(<<73, 68>>, 2)>>, recs |-> <<>>, cut |-> FALSE]}

Codes == [shapefile : BuildShapefiles, table : BuildTables]

\* The first codes of the regions of two codes: at most one record a file
FirstCodes ==
    {c \in Codes : Len(c.shapefile.recs) <= 1 /\ Len(c.table.recs) <= 1}

\* The second code of a region: one that builds and one whose shapefile fails
SecondCodes ==
    {[shapefile |-> [type |-> 3, recs |-> <<StraightLine>>, cut |-> "whole"],
      table |-> [fields |-> <<Field(ContName, 3)>>,
                 recs |-> <<Rec(FALSE, <<49, 48, 48>>, 100)>>, cut |-> FALSE]],
     [shapefile |-> [type |-> 1, recs |-> <<>>, cut |-> "whole"],
      table |-> [fields |-> <<Field(ContName, 3)>>, recs |-> <<>>, cut |-> FALSE]]}

\* A blob with the envelope of its code before the WKB of a geometry
GeometryBlob(marker, envelope_code, g) ==
    marker \o <<0, 1 + 2 * envelope_code>> \o Pack32(4326, TRUE)
        \o [i \in 1..StandardEnvelope[envelope_code + 1] |-> 100 + i]
        \o Encode(g)

LineGeometry(gcode, pts) == [little |-> TRUE, code |-> gcode, pts |-> pts, kids |-> <<>>]

GoodLine == LineGeometry(2, <<<<Dbl0, Dbl0>>, <<Dbl1, Dbl1>>, <<Dbl32, Dbl0>>>>)

GoodMulti ==
    [little |-> FALSE, code |-> 1005, pts |-> <<>>,
     kids |-> <<LineGeometry(1002, <<<<Dbl0, Dbl0>>, <<Dbl32, Dbl1>>>>),
                LineGeometry(2, <<<<Dbl1, Dbl1>>>>)>>]

Row(present, b) == [present |-> present, blob |-> b]

\* No row; a line; a multi-line; a line of no points; a Point; a wrong marker
RouteRows ==
    {Row(FALSE, <<>>), Row(TRUE, GeometryBlob(Magic, 1, GoodLine)),
     Row(TRUE, GeometryBlob(Magic, 0, GoodMulti)),
     Row(TRUE, GeometryBlob(Magic, 1, LineGeometry(2, <<>>))),
     Row(TRUE, GeometryBlob(Magic, 0, LineGeometry(1, <<>>))),
     Row(TRUE, GeometryBlob(<<71, 81>>, 1, GoodLine))}

ContourRow(b, elev) == [blob |-> b, elev |-> elev]

GoodRows ==
    {ContourRow(GeometryBlob(Magic, 1, GoodLine), 100),
     ContourRow(GeometryBlob(Magic, 4, GoodMulti), 20)}

\* A reserved envelope code; a polygon
BadRows ==
    {ContourRow(GeometryBlob(Magic, 5, GoodLine), 20),
     ContourRow(GeometryBlob(Magic, 1, LineGeometry(3, <<>>)), 100)}

ContourRowLists ==
    {<<>>} \cup {<<r>> : r \in GoodRows \cup BadRows}
           \cup {<<r, s>> : r \in GoodRows, s \in GoodRows \cup BadRows}

-----------------------------------------------------------------------------
(* The builds' specification. *)

ShapefileBuilds == {"seoul", "region"}

\* The files of a code, as the run finds them
CodeLoaded(c) ==
    /\ shapefile' = c.shapefile
    /\ shp' = WriteShp(c.shapefile)
    /\ shapes' = NoResult
    /\ table' = c.table
    /\ dbf' = WriteDbf(c.table)
    /\ contours' = NoResult

InitBuild ==
    /\ SimplifyIdle
    /\ WkbIdle
    /\ GpkgIdle
    /\ open = {}
    /\ bounds = <<>>
    /\ output_lines = <<>>
    /\ route_lines = NoResult
    /\ \/ /\ entry = "seoul"
          /\ codes \in {<<c>> : c \in Codes}
       \/ /\ entry = "region"
          /\ codes \in {<<c>> : c \in Codes}
                        \cup {<<c, d>> : c \in FirstCodes, d \in SecondCodes}
       \/ /\ entry = "jeju"
          /\ codes = <<>>
    /\ IF entry \in ShapefileBuilds
       THEN /\ pc = "open_shp"
            /\ code_no = 1
            /\ shapefile = codes[1].shapefile
            /\ shp = WriteShp(shapefile)
            /\ shapes = NoResult
            /\ table = codes[1].table
            /\ dbf = WriteDbf(table)
            /\ contours = NoResult
            /\ route_row = Row(FALSE, <<>>)
            /\ contour_rows = <<>>
       ELSE /\ pc = "connect_route"
            /\ code_no = 0
            /\ ShpIdle
            /\ DbfIdle
            /\ route_row \in RouteRows
            /\ contour_rows \in ContourRowLists

\* with path.open("rb") as f: (read_shp_polylines)
OpenShp ==
    /\ pc = "open_shp"
    /\ open' = open \cup {"shp"}
    /\ pc' = "read_shp"
    /\ UNCHANGED <<entry, codes, code_no, bounds, output_lines,
                   route_row, contour_rows, route_lines>>
    /\ UNCHANGED <<shpVars, dbfVars, notBuildVars>>

\* The body of the with block of read_shp_polylines
BuildReadShp ==
    /\ pc = "read_shp"
    /\ shapes' = read_shp_polylines(shp)
    /\ pc' = "close_shp"
    /\ UNCHANGED <<shp, shapefile, dbfVars, buildVars, notBuildVars>>

\* The exit of the with block; the exception, if any, ends the run
CloseShp ==
    /\ pc = "close_shp"
    /\ open' = Released(open, "shp", shapes.ok)
    /\ pc' = IF shapes.ok THEN "open_dbf" ELSE "failed"
    /\ UNCHANGED <<entry, codes, code_no, bounds, output_lines,
                   route_row, contour_rows, route_lines>>
    /\ UNCHANGED <<shpVars, dbfVars, notBuildVars>>

\* with path.open("rb") as f: (read_dbf_contours)
OpenDbf ==
    /\ pc = "open_dbf"
    /\ open' = open \cup {"dbf"}
    /\ pc' = "read_dbf"
    /\ UNCHANGED <<entry, codes, code_no, bounds, output_lines,
                   route_row, contour_rows, route_lines>>
    /\ UNCHANGED <<shpVars, dbfVars, notBuildVars>>

BuildReadDbf ==
    /\ pc = "read_dbf"
    /\ contours' = read_dbf_contours(dbf)
    /\ pc' = "close_dbf"
    /\ UNCHANGED <<dbf, table, shpVars, buildVars, notBuildVars>>

CloseDbf ==
    /\ pc = "close_dbf"
    /\ open' = Released(open, "dbf", contours.ok)
    /\ pc' = IF contours.ok THEN "emit" ELSE "failed"
    /\ UNCHANGED <<entry, codes, code_no, bounds, output_lines,
                   route_row, contour_rows, route_lines>>
    /\ UNCHANGED <<shpVars, dbfVars, notBuildVars>>

\* The padding of contours, the merge of the bounds and the loop over shapes
Emit ==
    /\ pc = "emit"
    /\ LET padded  == PadContours(contours.val, Len(shapes.val.shapes))
           emitted == EmitShapes(entry, shapes.val.shapes, padded, code_no, 1,
                                 output_lines)
       IN  /\ contours' = Returned(padded)
           /\ bounds' = _merge_bounds(bounds, [i \in 1..4 |->
                                                  DoubleValue(shapes.val.bounds[i])])
           /\ output_lines' = IF emitted.ok THEN emitted.val ELSE output_lines
           /\ pc' = IF ~emitted.ok THEN "failed"
                    ELSE IF code_no < Len(codes) THEN "next_code" ELSE "write"
    /\ UNCHANGED <<entry, open, codes, code_no, route_row, contour_rows, route_lines>>
    /\ UNCHANGED <<dbf, table, shpVars, notBuildVars>>

\* for code in codes: shp = _find_shp(str(code)); dbf = shp.with_suffix(".dbf")
NextCode ==
    /\ pc = "next_code"
    /\ code_no' = code_no + 1
    /\ CodeLoaded(codes[code_no + 1])
    /\ pc' = "open_shp"
    /\ UNCHANGED <<entry, open, codes, bounds, output_lines,
                   route_row, contour_rows, route_lines>>
    /\ UNCHANGED notBuildVars

\* The output: the padded bounds and the contours
Write ==
    /\ pc = "write"
    /\ bounds' = PaddedBounds(bounds)
    /\ pc' = "written"
    /\ UNCHANGED <<entry, open, codes, code_no, output_lines,
                   route_row, contour_rows, route_lines>>
    /\ UNCHANGED <<shpVars, dbfVars, notBuildVars>>

\* conn = sqlite3.connect(route_gpkg)
ConnectRoute ==
    /\ pc = "connect_route"
    /\ open' = open \cup {"route_gpkg"}
    /\ pc' = "load_route"
    /\ UNCHANGED <<entry, codes, code_no, bounds, output_lines,
                   route_row, contour_rows, route_lines>>
    /\ UNCHANGED <<shpVars, dbfVars, notBuildVars>>

\* The try block of load_route_lines; a query of the database may fail
LoadRoute ==
    /\ pc = "load_route"
    /\ \E fault \in BOOLEAN :
        route_lines' = IF fault THEN Raised("sqlite3.Error") ELSE RouteLines(route_row)
    /\ pc' = "close_route"
    /\ UNCHANGED <<entry, open, codes, code_no, bounds, output_lines,
                   route_row, contour_rows>>
    /\ UNCHANGED <<shpVars, dbfVars, notBuildVars>>

\* finally: conn.close()
CloseRoute ==
    /\ pc = "close_route"
    /\ open' = Released(open, "route_gpkg", route_lines.ok)
    /\ pc' = IF route_lines.ok THEN "bounds" ELSE "failed"
    /\ UNCHANGED <<entry, codes, code_no, bounds, output_lines,
                   route_row, contour_rows, route_lines>>
    /\ UNCHANGED <<shpVars, dbfVars, notBuildVars>>

\* route_bounds = compute_bounds(route_lines)
ComputeBounds ==
    /\ pc = "bounds"
    /\ IF HasCoordinates(route_lines.val)
       THEN LET xs == {p[1] : p \in PointsOf(route_lines.val)}
                ys == {p[2] : p \in PointsOf(route_lines.val)}
            IN  /\ bounds' = <<Min(xs), Min(ys), Max(xs), Max(ys)>>
                /\ pc' = "connect_contours"
       ELSE /\ bounds' = bounds
            /\ pc' = "failed"
    /\ UNCHANGED <<entry, open, codes, code_no, output_lines,
                   route_row, contour_rows, route_lines>>
    /\ UNCHANGED <<shpVars, dbfVars, notBuildVars>>

\* conn = sqlite3.connect(contour_gpkg)
ConnectContours ==
    /\ pc = "connect_contours"
    /\ open' = open \cup {"contour_gpkg"}
    /\ pc' = "load_contours"
    /\ UNCHANGED <<entry, codes, code_no, bounds, output_lines,
                   route_row, contour_rows, route_lines>>
    /\ UNCHANGED <<shpVars, dbfVars, notBuildVars>>

\* The try block of load_contours; a query of the database may fail
LoadContours ==
    /\ pc = "load_contours"
    /\ \E fault \in BOOLEAN :
        LET loaded == IF fault THEN Raised("sqlite3.Error")
                      ELSE Contours(contour_rows, 1, <<>>)
        IN  /\ output_lines' = IF loaded.ok THEN loaded.val ELSE output_lines
            /\ pc' = IF loaded.ok THEN "close_contours" ELSE "close_contours_raised"
    /\ UNCHANGED <<entry, open, codes, code_no, bounds, route_row, contour_rows,
                   route_lines>>
    /\ UNCHANGED <<shpVars, dbfVars, notBuildVars>>

\* finally: conn.close()
CloseContours ==
    /\ pc \in {"close_contours", "close_contours_raised"}
    /\ open' = Released(open, "contour_gpkg", pc = "close_contours")
    /\ pc' = IF pc = "close_contours" THEN "write_jeju" ELSE "failed"
    /\ UNCHANGED <<entry, codes, code_no, bounds, output_lines,
                   route_row, contour_rows, route_lines>>
    /\ UNCHANGED <<shpVars, dbfVars, notBuildVars>>

\* The output of main: the view bounds (the route's, expanded by 2500), the
\* route and the contours, their lines rounded
WriteJeju ==
    /\ pc = "write_jeju"
    /\ bounds' = <<bounds[1] - 2500, bounds[2] - 2500, bounds[3] + 2500, bounds[4] + 2500>>
    /\ output_lines' = [k \in 1..Len(output_lines) |->
                           [output_lines[k] EXCEPT !.line = _round_line(@)]]
    /\ pc' = "written"
    /\ UNCHANGED <<entry, open, codes, code_no, route_row, contour_rows, route_lines>>
    /\ UNCHANGED <<shpVars, dbfVars, notBuildVars>>

NextBuild ==
    \/ OpenShp \/ BuildReadShp \/ CloseShp
    \/ OpenDbf \/ BuildReadDbf \/ CloseDbf
    \/ Emit \/ NextCode \/ Write
    \/ ConnectRoute \/ LoadRoute \/ CloseRoute \/ ComputeBounds
    \/ ConnectContours \/ LoadContours \/ CloseContours \/ WriteJeju

SpecBuild == InitBuild /\ [][NextBuild]_vars

-----------------------------------------------------------------------------
(* Claims about the builds, checked under SpecBuild. *)

\* The source a step of a run holds open
SourceOfStep ==
    [read_shp |-> "shp", close_shp |-> "shp", read_dbf |-> "dbf", close_dbf |-> "dbf",
     load_route |-> "route_gpkg", close_route |-> "route_gpkg",
     load_contours |-> "contour_gpkg", close_contours |-> "contour_gpkg",
     close_contours_raised |-> "contour_gpkg"]

\* C14: in every run of each build entry point at most one binary source
\* (shapefile, DBF file or GeoPackage connection) is open at any time: the
\* source open is the one the step at hand reads or is about to close, none is
\* open when the next one is opened, and none is left open when the run has
\* written its output or has failed, a failed decode included.
OneSourceOpenAtATime ==
    /\ Cardinality(open) <= 1
    /\ open = IF pc \in DOMAIN SourceOfStep THEN {SourceOfStep[pc]} ELSE {}

\* A region's run that failed in the shapefile decode of its second code,
\* after the two sources of the first code were read and closed.
FailedDecodeReleased ==
    /\ entry = "region"
    /\ code_no = 2
    /\ pc = "failed"
    /\ shapes.err = "Unsupported shapefile type"
    /\ open = {}

\* The elevation the table gives a record, 0 beyond its last record
ElevationOfRecord(tb, idx) ==
    IF idx <= Len(tb.recs) THEN tb.recs[idx].elev ELSE 0

\* The (record, part) of every part of at least 2 points of the records whose
\* elevation is a multiple of 20, in record order then part order
RECURSIVE PartsToEmit(_, _, _)
PartsToEmit(sf, tb, idx) ==
    IF idx > Len(sf.recs) THEN <<>>
    ELSE (IF ElevationOfRecord(tb, idx) % 20 = 0
          THEN [k \in 1..Len(PartsKept(sf.recs[idx])) |-> <<idx, k>>]
          ELSE <<>>)
         \o PartsToEmit(sf, tb, idx + 1)

\* The contours emitted for the code at hand
IsOfCodeAtHand(e) == e.code = code_no

EmittedOfCode == SelectSeq(output_lines, IsOfCodeAtHand)

AllPartsEmitted ==
    /\ [k \in 1..Len(EmittedOfCode) |-> <<EmittedOfCode[k].record, EmittedOfCode[k].part>>]
           = PartsToEmit(shapefile, table, 1)
    /\ \A k \in 1..Len(EmittedOfCode) : Len(EmittedOfCode[k].line) >= 2

CodeEmitted == pc \in {"next_code", "write", "written"}

\* C15: in build_overlay and build_region, every part-polyline of at least 2
\* points of a shape record whose elevation passes the elevation-step filter
\* gives exactly one emitted contour, of at least 2 points, in record order
\* then part order.  build_region breaks it: a closed ring within min_spacing
\* of its first point comes back from _simplify_line_fast as one point (C1)
\* and is dropped.
EveryPartEmitted ==
    (entry \in ShapefileBuilds /\ CodeEmitted) => AllPartsEmitted

\* What does hold: build_overlay, which simplifies with _simplify_line, emits
\* every part.
OverlayEveryPartEmitted ==
    (entry = "seoul" /\ CodeEmitted) => AllPartsEmitted

\* C16: in build_overlay and build_region, every emitted contour carries the
\* elevation of the DBF record with the same index as the shapefile record it
\* came from, 0 when the table has no record at that index; its major flag is
\* true exactly when that elevation is a multiple of 100; and that elevation
\* is a multiple of 20.  The contour's points are points of that record's part.
ElevationsAligned ==
    entry \in ShapefileBuilds =>
        \A k \in 1..Len(output_lines) :
            LET e        == output_lines[k]
                c        == codes[e.code]
                expected == ElevationOfRecord(c.table, e.record)
            IN  /\ e.record \in 1..Len(c.shapefile.recs)
                /\ e.part \in 1..Len(PartsKept(c.shapefile.recs[e.record]))
                /\ IsSubseq(e.line, Coordinates(PartsKept(c.shapefile.recs[e.record])[e.part]))
                /\ e.elev = expected
                /\ e.major = (expected % 100 = 0)
                /\ expected % 20 = 0

\* A build of two shape records over a table of one record, of elevation 20:
\* a minor contour from record 1, a major one of elevation 0 from record 2.
SecondRecordPadded ==
    /\ entry \in ShapefileBuilds
    /\ pc = "written"
    /\ Len(table.recs) = 1
    /\ table.recs[1].elev = 20
    /\ \E j, k \in 1..Len(output_lines) :
        /\ output_lines[j].record = 1
        /\ output_lines[j].elev = 20
        /\ ~output_lines[j].major
        /\ output_lines[k].record = 2
        /\ output_lines[k].elev = 0
        /\ output_lines[k].major

=============================================================================
